---- MODULE Spec2Model ----
(***************************************************************************)
(* A model of the N x N x N cube of rubiks_cube.py (RubiksCube and its     *)
(* CubeStateTracker) and of the layer-by-layer solver of solver.py.        *)
(*                                                                         *)
(* Faces are numbered as in the source: FRONT=0, BACK=1, RIGHT=2, LEFT=3,  *)
(* UP=4, DOWN=5; a grid is cube[face][row][col] with rows and columns      *)
(* counted from 0.  A move token is a string ("U", "U'", "U2", "M", ...);  *)
(* a move sequence is the list of tokens that str.split() yields.          *)
(***************************************************************************)
EXTENDS Integers, Sequences, FiniteSets, TLC

VARIABLES
    size,            \* RubiksCube.size
    cube,            \* RubiksCube.cube: the facelet grid
    move_history,    \* RubiksCube.move_history
    tracker,         \* RubiksCube.tracker: [present, edges, corners]
    pc,              \* where the caller and the solver are
    solution_moves,  \* RubiksCubeSolver.solution_moves
    pending,         \* tokens of the algorithm being executed, not yet applied
    slot,             \* i of the loops over the four target slots
    attempt,         \* attempt of the retry loops
    depth,           \* nesting of _move_white_edge/corner_to_position calls
    entry,           \* the grid when the outermost of those calls was made
    before,          \* the caller's clone of the cube, taken before solve()
    objects,         \* the RubiksCube objects of a program that clones a cube
    heap,            \* the lists those objects' attributes refer to
    result           \* what the last call of validate_cube_state gave back

cubeVars == <<size, cube, move_history, tracker>>
solverVars == <<pc, solution_moves, pending, slot, attempt, depth, entry, before>>
heapVars == <<objects, heap, result>>

----------------------------------------------------------------------------
(* Bounds of the model *)

MaxSize == 4         \* cube sizes 2..MaxSize are constructed
MaxMoves == 2        \* single move calls made on one cube
MaxScramble == 2     \* num_moves of scramble() is at most this
RecursionLimit == 50 \* call depth at which the interpreter gives up

----------------------------------------------------------------------------
(* Faces, colours and tokens *)

FRONT == 0
BACK == 1
RIGHT == 2
LEFT == 3
UP == 4
DOWN == 5

Faces == 0..5
Idx(n) == 0..(n - 1)

FaceNames == <<"U", "D", "R", "L", "F", "B">>
BaseTokens == {"U", "D", "R", "L", "F", "B"}
PrimeTokens == {"U'", "D'", "R'", "L'", "F'", "B'"}
DoubleTokens == {"U2", "D2", "R2", "L2", "F2", "B2"}
SliceTokens == {"M", "E", "S"}
FaceTokens == BaseTokens \cup PrimeTokens \cup DoubleTokens

PrimeOf(x) == CASE x = "U" -> "U'" [] x = "D" -> "D'" [] x = "R" -> "R'"
                [] x = "L" -> "L'" [] x = "F" -> "F'" [] x = "B" -> "B'"
DoubleOf(x) == CASE x = "U" -> "U2" [] x = "D" -> "D2" [] x = "R" -> "R2"
                 [] x = "L" -> "L2" [] x = "F" -> "F2" [] x = "B" -> "B2"
\* move[0]: the face letter of a prime or double token
BaseOf(t) == CHOOSE x \in BaseTokens : t \in {x, PrimeOf(x), DoubleOf(x)}

----------------------------------------------------------------------------
(* CubeStateTracker *)

\* f @@ f is the function f itself, written so that it is evaluated at once
\* to the table of its values: each assignment of the source is carried out
\* when it is made, not when the cell is next read.
Table(f) == f @@ f

solved_edges ==
    Table([i \in 0..11 |->
        [id |-> <<"UF", "UR", "UB", "UL", "DF", "DR",
                  "DB", "DL", "FR", "FL", "BR", "BL">>[i + 1],
         position |-> i, orientation |-> 0]])

solved_corners ==
    Table([i \in 0..7 |->
        [id |-> <<"UFR", "UFL", "UBL", "UBR",
                  "DFR", "DFL", "DBL", "DBR">>[i + 1],
         position |-> i, orientation |-> 0]])

\* CubeStateTracker(): the tracker of a freshly built 3x3 cube
NewTracker == [present |-> TRUE, edges |-> solved_edges, corners |-> solved_corners]
\* self.tracker = None
NoTracker == [present |-> FALSE, edges |-> << >>, corners |-> << >>]

\* The F row of move_tables with one entry of edge_orient_flip left out.
move_tables_mut(m) ==
    CASE m = "U" -> [edges |-> <<<<0, 1>>, <<1, 2>>, <<2, 3>>, <<3, 0>>>>,
                     corners |-> <<<<0, 1>>, <<1, 2>>, <<2, 3>>, <<3, 0>>>>,
                     edge_orient_flip |-> << >>,
                     corner_orient_change |-> << >>]
      [] m = "D" -> [edges |-> <<<<4, 7>>, <<7, 6>>, <<6, 5>>, <<5, 4>>>>,
                     corners |-> <<<<4, 5>>, <<5, 6>>, <<6, 7>>, <<7, 4>>>>,
                     edge_orient_flip |-> << >>,
                     corner_orient_change |-> << >>]
      [] m = "R" -> [edges |-> <<<<1, 8>>, <<8, 5>>, <<5, 10>>, <<10, 1>>>>,
                     corners |-> <<<<0, 4>>, <<4, 7>>, <<7, 3>>, <<3, 0>>>>,
                     edge_orient_flip |-> << >>,
                     corner_orient_change |-> <<<<0, 1>>, <<4, 2>>, <<7, 1>>, <<3, 2>>>>]
      [] m = "L" -> [edges |-> <<<<3, 11>>, <<11, 7>>, <<7, 9>>, <<9, 3>>>>,
                     corners |-> <<<<1, 2>>, <<2, 6>>, <<6, 5>>, <<5, 1>>>>,
                     edge_orient_flip |-> << >>,
                     corner_orient_change |-> <<<<1, 2>>, <<2, 1>>, <<6, 2>>, <<5, 1>>>>]
      [] m = "F" -> [edges |-> <<<<0, 9>>, <<9, 4>>, <<4, 8>>, <<8, 0>>>>,
                     corners |-> <<<<0, 1>>, <<1, 5>>, <<5, 4>>, <<4, 0>>>>,
                     edge_orient_flip |-> <<0, 9, 4>>,
                     corner_orient_change |-> <<<<0, 2>>, <<1, 1>>, <<5, 2>>, <<4, 1>>>>]
      [] m = "B" -> [edges |-> <<<<2, 10>>, <<10, 6>>, <<6, 11>>, <<11, 2>>>>,
                     corners |-> <<<<3, 2>>, <<2, 6>>, <<6, 7>>, <<7, 3>>>>,
                     edge_orient_flip |-> <<2, 10, 6, 11>>,
                     corner_orient_change |-> <<<<3, 1>>, <<2, 2>>, <<6, 1>>, <<7, 2>>>>]

\* self.move_tables: per face the edge "cycles", the corner "cycles" (each
\* entry is a pair of slots), the edge slots whose orientation flips and
\* the (corner slot, delta) orientation changes.
move_tables(m) ==
    CASE m = "U" -> [edges |-> <<<<0, 1>>, <<1, 2>>, <<2, 3>>, <<3, 0>>>>,
                     corners |-> <<<<0, 1>>, <<1, 2>>, <<2, 3>>, <<3, 0>>>>,
                     edge_orient_flip |-> << >>,
                     corner_orient_change |-> << >>]
      [] m = "D" -> [edges |-> <<<<4, 7>>, <<7, 6>>, <<6, 5>>, <<5, 4>>>>,
                     corners |-> <<<<4, 5>>, <<5, 6>>, <<6, 7>>, <<7, 4>>>>,
                     edge_orient_flip |-> << >>,
                     corner_orient_change |-> << >>]
      [] m = "R" -> [edges |-> <<<<1, 8>>, <<8, 5>>, <<5, 10>>, <<10, 1>>>>,
                     corners |-> <<<<0, 4>>, <<4, 7>>, <<7, 3>>, <<3, 0>>>>,
                     edge_orient_flip |-> << >>,
                     corner_orient_change |-> <<<<0, 1>>, <<4, 2>>, <<7, 1>>, <<3, 2>>>>]
      [] m = "L" -> [edges |-> <<<<3, 11>>, <<11, 7>>, <<7, 9>>, <<9, 3>>>>,
                     corners |-> <<<<1, 2>>, <<2, 6>>, <<6, 5>>, <<5, 1>>>>,
                     edge_orient_flip |-> << >>,
                     corner_orient_change |-> <<<<1, 2>>, <<2, 1>>, <<6, 2>>, <<5, 1>>>>]
      [] m = "F" -> [edges |-> <<<<0, 9>>, <<9, 4>>, <<4, 8>>, <<8, 0>>>>,
                     corners |-> <<<<0, 1>>, <<1, 5>>, <<5, 4>>, <<4, 0>>>>,
                     edge_orient_flip |-> <<0, 9, 4, 8>>,
                     corner_orient_change |-> <<<<0, 2>>, <<1, 1>>, <<5, 2>>, <<4, 1>>>>]
      [] m = "B" -> [edges |-> <<<<2, 10>>, <<10, 6>>, <<6, 11>>, <<11, 2>>>>,
                     corners |-> <<<<3, 2>>, <<2, 6>>, <<6, 7>>, <<7, 3>>>>,
                     edge_orient_flip |-> <<2, 10, 6, 11>>,
                     corner_orient_change |-> <<<<3, 1>>, <<2, 2>>, <<6, 1>>, <<7, 2>>>>]

\* The inner loop of _permute_pieces for one cycle, from index i (1-based)
\* on: pieces[cycle[i]] = pieces[cycle[i + 1]], reading the list as it is
\* after the earlier assignments.
RECURSIVE ShiftAlong(_, _, _)
ShiftAlong(pieces, cycle, i) ==
    IF i > Len(cycle) - 1 THEN pieces
    ELSE ShiftAlong([pieces EXCEPT ![cycle[i]] = pieces[cycle[i + 1]]], cycle, i + 1)

\* One iteration of the outer loop of _permute_pieces.
PermuteCycle(pieces, cycle) ==
    IF Len(cycle) < 2 THEN pieces
    ELSE LET temp == pieces[cycle[1]]
             shifted == ShiftAlong(pieces, cycle, 1)
         IN  [shifted EXCEPT ![cycle[Len(cycle)]] = temp]

RECURSIVE _permute_pieces(_, _)
_permute_pieces(pieces, cycles) ==
    IF cycles = << >> THEN pieces
    ELSE _permute_pieces(PermuteCycle(pieces, Head(cycles)), Tail(cycles))

\* orientation ^= 1 for every listed edge slot, in order
RECURSIVE FlipEdges(_, _)
FlipEdges(edges, idxs) ==
    IF idxs = << >> THEN edges
    ELSE FlipEdges([edges EXCEPT ![Head(idxs)].orientation = (@ + 1) % 2], Tail(idxs))

\* orientation = (orientation + delta) % 3 for every listed (slot, delta)
RECURSIVE TwistCorners(_, _)
TwistCorners(corners, changes) ==
    IF changes = << >> THEN corners
    ELSE TwistCorners([corners EXCEPT ![Head(changes)[1]].orientation =
                            (@ + Head(changes)[2]) % 3], Tail(changes))

_apply_single_move(t, move) ==
    IF move \notin BaseTokens THEN t
    ELSE LET table == move_tables(move)
         IN  [t EXCEPT
                !.edges = FlipEdges(_permute_pieces(@, table.edges),
                                    table.edge_orient_flip),
                !.corners = TwistCorners(_permute_pieces(@, table.corners),
                                         table.corner_orient_change)]

\* CubeStateTracker.apply_move; a token ends with "'" or "2" exactly when
\* it is a prime or a double token.
apply_move(t, move) ==
    IF move \in PrimeTokens
    THEN _apply_single_move(_apply_single_move(_apply_single_move(t, BaseOf(move)),
                                               BaseOf(move)), BaseOf(move))
    ELSE IF move \in DoubleTokens
    THEN _apply_single_move(_apply_single_move(t, BaseOf(move)), BaseOf(move))
    ELSE _apply_single_move(t, move)

is_edge_solved(t, idx) ==
    /\ t.edges[idx].id = solved_edges[idx].id
    /\ t.edges[idx].orientation = solved_edges[idx].orientation

is_corner_solved(t, idx) ==
    /\ t.corners[idx].id = solved_corners[idx].id
    /\ t.corners[idx].orientation = solved_corners[idx].orientation

is_cube_solved(t) ==
    /\ \A i \in 0..11 : is_edge_solved(t, i)
    /\ \A i \in 0..7 : is_corner_solved(t, i)

RECURSIVE SumOrientation(_, _)
SumOrientation(pieces, n) ==
    IF n = 0 THEN 0 ELSE pieces[n - 1].orientation + SumOrientation(pieces, n - 1)

\* CubeStateTracker.validate_state: the message of the ValueError it raises,
\* or "ok" when it returns.
validate_state(t) ==
    IF Cardinality({t.edges[i].position : i \in 0..11}) # 12
    THEN "Duplicate or missing edge positions detected!"
    ELSE IF Cardinality({t.corners[i].position : i \in 0..7}) # 8
    THEN "Duplicate or missing corner positions detected!"
    ELSE IF SumOrientation(t.edges, 12) % 2 # 0
    THEN "Invalid edge orientation parity!"
    ELSE IF SumOrientation(t.corners, 8) % 3 # 0
    THEN "Invalid corner orientation parity!"
    ELSE "ok"

----------------------------------------------------------------------------
(* RubiksCube: the grid *)

\* The grid whose facelet (f, r, c) is cell[f, r, c]: a list of 6 faces,
\* each a list of n rows of n cells.
MakeGrid(n, cell) ==
    Table([f \in Faces |->
        Table([r \in Idx(n) |-> Table([c \in Idx(n) |-> cell[f, r, c]])])])

\* A grid whose DOWN face is filled with the colour of UP.
create_solved_cube_mut(n) ==
    MakeGrid(n, [f \in Faces, r \in Idx(n), c \in Idx(n) |-> IF f = 5 THEN 4 ELSE f])

\* create_solved_cube: face i filled with colour i
create_solved_cube(n) == MakeGrid(n, [f \in Faces, r \in Idx(n), c \in Idx(n) |-> f])

\* A rotation that fills every row from the first column of the face.
rotate_face_clockwise_mut(face, n) ==
    [i \in Idx(n) |-> [j \in Idx(n) |-> face[n - 1 - j][0]]]

rotate_face_clockwise(face, n) ==
    [i \in Idx(n) |-> [j \in Idx(n) |-> face[n - 1 - j][i]]]

\* The grid after the assignments of move_U.
GridU(g, n) ==
    MakeGrid(n, [f \in Faces, r \in Idx(n), c \in Idx(n) |->
        IF f = 4 THEN rotate_face_clockwise(g[4], n)[r][c]
        ELSE IF r # 0 THEN g[f][r][c]
        ELSE CASE f = 0 -> g[2][0][c]
               [] f = 2 -> g[1][0][c]
               [] f = 1 -> g[3][0][c]
               [] f = 3 -> g[0][0][c]
               [] OTHER -> g[f][r][c]])

\* The grid after the assignments of move_D.
GridD(g, n) ==
    MakeGrid(n, [f \in Faces, r \in Idx(n), c \in Idx(n) |->
        IF f = 5 THEN rotate_face_clockwise(g[5], n)[r][c]
        ELSE IF r # n - 1 THEN g[f][r][c]
        ELSE CASE f = 0 -> g[3][n - 1][c]
               [] f = 3 -> g[1][n - 1][c]
               [] f = 1 -> g[2][n - 1][c]
               [] f = 2 -> g[0][n - 1][c]
               [] OTHER -> g[f][r][c]])

\* The grid after the loop of move_R; iteration i writes four cells that no
\* other iteration reads or writes.
GridR(g, n) ==
    MakeGrid(n, [f \in Faces, r \in Idx(n), c \in Idx(n) |->
        CASE f = 2 -> rotate_face_clockwise(g[2], n)[r][c]
          [] f = 0 /\ c = n - 1 -> g[5][r][n - 1]
          [] f = 5 /\ c = n - 1 -> g[1][n - 1 - r][0]
          [] f = 1 /\ c = 0 -> g[4][n - 1 - r][n - 1]
          [] f = 4 /\ c = n - 1 -> g[0][r][n - 1]
          [] OTHER -> g[f][r][c]])

\* The grid after the loop of move_L.
GridL(g, n) ==
    MakeGrid(n, [f \in Faces, r \in Idx(n), c \in Idx(n) |->
        CASE f = 3 -> rotate_face_clockwise(g[3], n)[r][c]
          [] f = 0 /\ c = 0 -> g[4][r][0]
          [] f = 4 /\ c = 0 -> g[1][n - 1 - r][n - 1]
          [] f = 1 /\ c = n - 1 -> g[5][n - 1 - r][0]
          [] f = 5 /\ c = 0 -> g[0][r][0]
          [] OTHER -> g[f][r][c]])

\* The grid after the loop of move_F.
GridF(g, n) ==
    MakeGrid(n, [f \in Faces, r \in Idx(n), c \in Idx(n) |->
        CASE f = 0 -> rotate_face_clockwise(g[0], n)[r][c]
          [] f = 4 /\ r = n - 1 -> g[3][n - 1 - c][n - 1]
          [] f = 3 /\ c = n - 1 -> g[5][0][r]
          [] f = 5 /\ r = 0 -> g[2][n - 1 - c][0]
          [] f = 2 /\ c = 0 -> g[4][n - 1][r]
          [] OTHER -> g[f][r][c]])

\* The grid after the loop of move_B.
GridB(g, n) ==
    MakeGrid(n, [f \in Faces, r \in Idx(n), c \in Idx(n) |->
        CASE f = 1 -> rotate_face_clockwise(g[1], n)[r][c]
          [] f = 4 /\ r = 0 -> g[2][n - 1 - c][n - 1]
          [] f = 2 /\ c = n - 1 -> g[5][n - 1][r]
          [] f = 5 /\ r = n - 1 -> g[3][n - 1 - c][0]
          [] f = 3 /\ c = 0 -> g[4][0][n - 1 - r]
          [] OTHER -> g[f][r][c]])

\* The grid part of move_M: nothing on an even-sized cube.
GridM(g, n) ==
    IF n % 2 # 1 THEN g
    ELSE LET middle == n \div 2
         IN  MakeGrid(n, [f \in Faces, r \in Idx(n), c \in Idx(n) |->
                CASE f = 0 /\ c = middle -> g[4][r][middle]
                  [] f = 4 /\ c = middle -> g[1][n - 1 - r][middle]
                  [] f = 1 /\ c = middle -> g[5][n - 1 - r][middle]
                  [] f = 5 /\ c = middle -> g[0][r][middle]
                  [] OTHER -> g[f][r][c]])

\* The grid part of move_E.
GridE(g, n) ==
    IF n % 2 # 1 THEN g
    ELSE LET middle == n \div 2
         IN  MakeGrid(n, [f \in Faces, r \in Idx(n), c \in Idx(n) |->
                CASE f = 0 /\ r = middle -> g[3][middle][c]
                  [] f = 3 /\ r = middle -> g[1][middle][c]
                  [] f = 1 /\ r = middle -> g[2][middle][c]
                  [] f = 2 /\ r = middle -> g[0][middle][c]
                  [] OTHER -> g[f][r][c]])

\* The grid part of move_S.
GridS(g, n) ==
    IF n % 2 # 1 THEN g
    ELSE LET middle == n \div 2
         IN  MakeGrid(n, [f \in Faces, r \in Idx(n), c \in Idx(n) |->
                CASE f = 4 /\ r = middle -> g[3][n - 1 - c][middle]
                  [] f = 3 /\ c = middle -> g[5][middle][r]
                  [] f = 5 /\ r = middle -> g[2][n - 1 - c][middle]
                  [] f = 2 /\ c = middle -> g[4][middle][r]
                  [] OTHER -> g[f][r][c]])

----------------------------------------------------------------------------
(* RubiksCube: the object.  self = [size, cube, move_history, tracker] *)

\* RubiksCube(size): __init__
NewCube(n) ==
    [size |-> n, cube |-> create_solved_cube(n), move_history |-> << >>,
     tracker |-> IF n = 3 THEN NewTracker ELSE NoTracker]

\* A U turn that takes the layer below the top one with it.
GridOf_mut(x, g, n) ==
    CASE x = "U" -> GridE(GridU(g, n), n) [] x = "D" -> GridD(g, n)
      [] x = "R" -> GridR(g, n) [] x = "L" -> GridL(g, n)
      [] x = "F" -> GridF(g, n) [] x = "B" -> GridB(g, n)

GridOf(x, g, n) ==
    CASE x = "U" -> GridU(g, n) [] x = "D" -> GridD(g, n)
      [] x = "R" -> GridR(g, n) [] x = "L" -> GridL(g, n)
      [] x = "F" -> GridF(g, n) [] x = "B" -> GridB(g, n)

\* move_U, move_D, move_R, move_L, move_F, move_B for x = "U", ..., "B":
\* the grid assignments, the history entry and the tracker update.
move_base(self, x) ==
    [self EXCEPT
        !.cube = GridOf(x, @, self.size),
        !.move_history = Append(@, x),
        !.tracker = IF @.present THEN apply_move(@, x) ELSE @]

\* self.move_history[:-k]
DropLast(h, k) == IF Len(h) <= k THEN << >> ELSE SubSeq(h, 1, Len(h) - k)

\* A prime move that leaves the three quarter-turn entries in the history.
move_prime_mut(self, x) ==
    LET turned == move_base(move_base(move_base(self, x), x), x)
    IN  [turned EXCEPT !.move_history = Append(@, PrimeOf(x))]

\* move_U_prime, ..., move_B_prime: three base moves, then the history fix.
move_prime(self, x) ==
    LET turned == move_base(move_base(move_base(self, x), x), x)
    IN  [turned EXCEPT !.move_history = Append(DropLast(@, 3), PrimeOf(x))]

\* A double move that trims one quarter-turn entry instead of two.
move_double_mut(self, x) ==
    LET turned == move_base(move_base(self, x), x)
    IN  [turned EXCEPT !.move_history = Append(DropLast(@, 1), DoubleOf(x))]

\* move_U2, ..., move_B2: two base moves, then the history fix.
move_double(self, x) ==
    LET turned == move_base(move_base(self, x), x)
    IN  [turned EXCEPT !.move_history = Append(DropLast(@, 2), DoubleOf(x))]

\* move_M, move_E, move_S: refused below size 3, otherwise the slice
\* assignments (odd sizes only) and the history entry; no tracker update.
move_slice(self, s) ==
    IF self.size < 3 THEN self
    ELSE [self EXCEPT
            !.cube = CASE s = "M" -> GridM(@, self.size)
                       [] s = "E" -> GridE(@, self.size)
                       [] s = "S" -> GridS(@, self.size),
            !.move_history = Append(@, s)]

\* The keys of move_map in execute_moves.
KnownTokens == FaceTokens \cup SliceTokens

\* move_map[move](): the method a known token is bound to.
move_map(self, move) ==
    IF move \in BaseTokens THEN move_base(self, move)
    ELSE IF move \in PrimeTokens THEN move_prime(self, BaseOf(move))
    ELSE IF move \in DoubleTokens THEN move_double(self, BaseOf(move))
    ELSE move_slice(self, move)

\* An iteration that writes an unknown token into the history.
execute_one_mut(self, move) ==
    IF move \in KnownTokens THEN move_map(self, move)
    ELSE [self EXCEPT !.move_history = Append(@, move)]

\* One iteration of the loop of execute_moves: a known token is applied, an
\* unknown token is reported and skipped.
execute_one(self, move) ==
    IF move \in KnownTokens THEN move_map(self, move) ELSE self

\* execute_moves: the loop over the tokens, in order.  The cube after the
\* tokens so far is evaluated (its size is looked at) before the next token
\* is taken up, as the loop does.
RECURSIVE execute_moves(_, _)
execute_moves(self, moves) ==
    IF moves = << >> \/ self.size < 1 THEN self
    ELSE execute_moves(execute_one(self, Head(moves)), Tail(moves))

\* An is_solved that looks at the first row of each face only.
is_solved_mut(g, n) ==
    \A f \in Faces : \A c \in Idx(n) : g[f][0][c] = f

\* is_solved: every facelet of every face carries the face's own number
is_solved(g, n) ==
    \A f \in Faces : \A r \in Idx(n) : \A c \in Idx(n) : g[f][r][c] = f

\* get_state_string: the digits of the facelets, face by face, row by row
get_state_string(g, n) ==
    [k \in 1..(6 * n * n) |->
        g[(k - 1) \div (n * n)][((k - 1) % (n * n)) \div n][(k - 1) % n]]

\* A reset that leaves the tracker's records as they are.
reset_mut(self) ==
    [self EXCEPT
        !.cube = create_solved_cube(self.size),
        !.move_history = << >>]

\* reset: a new solved grid, an empty history and, where there is a tracker,
\* a new one.
reset(self) ==
    [self EXCEPT
        !.cube = create_solved_cube(self.size),
        !.move_history = << >>,
        !.tracker = IF @.present THEN NewTracker ELSE @]

\* A validate_cube_state without its try: the ValueError of validate_state
\* goes up to the caller.
validate_cube_state_mut(self) ==
    IF ~self.tracker.present
    THEN [valid |-> TRUE, message |-> "No tracker available for validation"]
    ELSE IF validate_state(self.tracker) = "ok"
    THEN [valid |-> TRUE, message |-> "Cube state is valid"]
    ELSE [raised |-> "ValueError", message |-> validate_state(self.tracker)]

\* validate_cube_state: the dictionary it returns; the ValueError of
\* validate_state is caught and its message handed back.
validate_cube_state(self) ==
    IF ~self.tracker.present
    THEN [valid |-> TRUE, message |-> "No tracker available for validation"]
    ELSE IF validate_state(self.tracker) = "ok"
    THEN [valid |-> TRUE, message |-> "Cube state is valid"]
    ELSE [valid |-> FALSE, message |-> validate_state(self.tracker)]

----------------------------------------------------------------------------
(* RubiksCubeSolver: colours, facelet tables and state analysis *)

WHITE == 0
YELLOW == 1
RED == 2
ORANGE == 3
GREEN == 4
BLUE == 5

\* self.cube.cube[pos[0]][pos[1]][pos[2]] for a facelet pos = (face, row, col)
At(g, pos) == g[pos[1]][pos[2]][pos[3]]

\* set([...]) of the colours at the facelets of one location
ColoursAt(g, location) == {At(g, location[k]) : k \in 1..Len(location)}

\* The first of the indices that match, 0 when none does: the result of a
\* search loop that returns at the first match and None after the loop.
FirstIndex(matches) ==
    IF matches = {} THEN 0
    ELSE CHOOSE k \in matches : \A j \in matches : k <= j

\* edge_locations of _find_white_edge_for_position
edge_locations == <<
    <<<<UP, 0, 1>>, <<BACK, 0, 1>>>>,
    <<<<UP, 1, 2>>, <<RIGHT, 0, 1>>>>,
    <<<<UP, 2, 1>>, <<FRONT, 0, 1>>>>,
    <<<<UP, 1, 0>>, <<LEFT, 0, 1>>>>,
    <<<<DOWN, 0, 1>>, <<FRONT, 2, 1>>>>,
    <<<<DOWN, 1, 2>>, <<RIGHT, 2, 1>>>>,
    <<<<DOWN, 2, 1>>, <<BACK, 2, 1>>>>,
    <<<<DOWN, 1, 0>>, <<LEFT, 2, 1>>>>,
    <<<<FRONT, 1, 0>>, <<LEFT, 1, 2>>>>,
    <<<<FRONT, 1, 2>>, <<RIGHT, 1, 0>>>>,
    <<<<BACK, 1, 0>>, <<RIGHT, 1, 2>>>>,
    <<<<BACK, 1, 2>>, <<LEFT, 1, 0>>>> >>

\* edge_positions / expected_colors of _is_white_edge_solved (index 0..3)
white_edge_positions == <<
    <<<<DOWN, 0, 1>>, <<FRONT, 2, 1>>>>,
    <<<<DOWN, 1, 2>>, <<RIGHT, 2, 1>>>>,
    <<<<DOWN, 2, 1>>, <<BACK, 2, 1>>>>,
    <<<<DOWN, 1, 0>>, <<LEFT, 2, 1>>>> >>

white_edge_colors == <<
    <<WHITE, GREEN>>, <<WHITE, RED>>, <<WHITE, BLUE>>, <<WHITE, ORANGE>> >>

_is_white_edge_solved(g, edge_index) ==
    /\ At(g, white_edge_positions[edge_index + 1][1]) = white_edge_colors[edge_index + 1][1]
    /\ At(g, white_edge_positions[edge_index + 1][2]) = white_edge_colors[edge_index + 1][2]

\* The index (1..12) in edge_locations of the location returned, 0 for None
_find_white_edge_for_position(g, target_position) ==
    LET target_set == {white_edge_colors[target_position + 1][1],
                       white_edge_colors[target_position + 1][2]}
    IN  FirstIndex({k \in 1..12 : ColoursAt(g, edge_locations[k]) = target_set})

_get_top_edge_position(pos) ==
    IF pos = <<UP, 2, 1>> THEN 0
    ELSE IF pos = <<UP, 1, 2>> THEN 1
    ELSE IF pos = <<UP, 0, 1>> THEN 2
    ELSE IF pos = <<UP, 1, 0>> THEN 3
    ELSE 0

_get_bottom_edge_position(pos) ==
    IF pos = <<DOWN, 0, 1>> THEN 0
    ELSE IF pos = <<DOWN, 1, 2>> THEN 1
    ELSE IF pos = <<DOWN, 2, 1>> THEN 2
    ELSE IF pos = <<DOWN, 1, 0>> THEN 3
    ELSE 0

\* "U" repeated k times: for _ in range(k): self._execute_move("U")
Us(k) == [j \in 1..k |-> "U"]

\* The half turn of the face at side index 0..3 (front, right, back, left)
HalfTurn(k) == <<"F2", "R2", "B2", "L2">>[k + 1]

\* The tokens _move_white_edge_to_position executes before it returns or
\* calls itself again, for the location with first facelet pos1.
white_edge_tokens(pos1, target_position) ==
    IF pos1[1] = UP
    THEN Us((target_position - _get_top_edge_position(pos1)) % 4)
            \o <<HalfTurn(target_position)>>
    ELSE IF pos1[1] = DOWN
    THEN <<HalfTurn(_get_bottom_edge_position(pos1))>>
    ELSE IF pos1[1] = FRONT /\ pos1[3] = 2
    THEN <<"R", "U", "R'", "U'", "F'", "U", "F">>
    ELSE IF pos1[1] = FRONT /\ pos1[3] = 0
    THEN <<"L'", "U'", "L", "U", "F", "U'", "F'">>
    ELSE IF pos1[1] = RIGHT /\ pos1[3] = 2
    THEN <<"B", "U", "B'", "U'", "R'", "U", "R">>
    ELSE IF pos1[1] = BACK /\ pos1[3] = 0
    THEN <<"L", "U", "L'", "U'", "B'", "U", "B">>
    ELSE << >>

\* corner_locations of _find_white_corner_for_position
corner_locations == <<
    <<<<UP, 2, 2>>, <<FRONT, 0, 2>>, <<RIGHT, 0, 0>>>>,
    <<<<UP, 2, 0>>, <<FRONT, 0, 0>>, <<LEFT, 0, 2>>>>,
    <<<<UP, 0, 0>>, <<BACK, 0, 2>>, <<LEFT, 0, 0>>>>,
    <<<<UP, 0, 2>>, <<BACK, 0, 0>>, <<RIGHT, 0, 2>>>>,
    <<<<DOWN, 0, 2>>, <<FRONT, 2, 2>>, <<RIGHT, 2, 0>>>>,
    <<<<DOWN, 0, 0>>, <<FRONT, 2, 0>>, <<LEFT, 2, 2>>>>,
    <<<<DOWN, 2, 0>>, <<BACK, 2, 2>>, <<LEFT, 2, 0>>>>,
    <<<<DOWN, 2, 2>>, <<BACK, 2, 0>>, <<RIGHT, 2, 2>>>> >>

\* corner_positions / expected_colors of _is_white_corner_solved
white_corner_positions == <<
    <<<<DOWN, 0, 2>>, <<FRONT, 2, 2>>, <<RIGHT, 2, 0>>>>,
    <<<<DOWN, 0, 0>>, <<FRONT, 2, 0>>, <<LEFT, 2, 2>>>>,
    <<<<DOWN, 2, 0>>, <<BACK, 2, 2>>, <<LEFT, 2, 0>>>>,
    <<<<DOWN, 2, 2>>, <<BACK, 2, 0>>, <<RIGHT, 2, 2>>>> >>

white_corner_colors == <<
    {WHITE, GREEN, RED}, {WHITE, GREEN, ORANGE},
    {WHITE, BLUE, ORANGE}, {WHITE, BLUE, RED} >>

_is_white_corner_solved(g, corner_index) ==
    /\ ColoursAt(g, white_corner_positions[corner_index + 1])
            = white_corner_colors[corner_index + 1]
    /\ At(g, white_corner_positions[corner_index + 1][1]) = WHITE

_find_white_corner_for_position(g, target_position) ==
    FirstIndex({k \in 1..8 : ColoursAt(g, corner_locations[k])
                                = white_corner_colors[target_position + 1]})

_get_top_corner_position(pos) ==
    IF pos = <<UP, 2, 2>> THEN 0
    ELSE IF pos = <<UP, 2, 0>> THEN 1
    ELSE IF pos = <<UP, 0, 0>> THEN 2
    ELSE IF pos = <<UP, 0, 2>> THEN 3
    ELSE 0

_get_bottom_corner_position(pos) ==
    IF pos = <<DOWN, 0, 2>> THEN 0
    ELSE IF pos = <<DOWN, 0, 0>> THEN 1
    ELSE IF pos = <<DOWN, 2, 0>> THEN 2
    ELSE IF pos = <<DOWN, 2, 2>> THEN 3
    ELSE 0

\* The extraction sequence of _move_white_corner_to_position for the bottom
\* corner at index 0..3; the same four sequences are the insertions of
\* _insert_corner_algorithm_FL / _BL / _BR (index 1..3).
corner_sequence(k) ==
    << <<"R'", "D'", "R", "D">>, <<"L", "D", "L'", "D'">>,
       <<"L'", "D'", "L", "D">>, <<"R", "D", "R'", "D'">> >>[k + 1]

_find_white_on_corner_above_FR(g) ==
    IF g[UP][2][2] = WHITE THEN "top"
    ELSE IF g[FRONT][0][2] = WHITE THEN "front"
    ELSE IF g[RIGHT][0][0] = WHITE THEN "right"
    ELSE "top"

\* The tokens of _insert_corner_algorithm_FR
_insert_corner_algorithm_FR(g) ==
    LET white_pos == _find_white_on_corner_above_FR(g)
    IN  IF white_pos = "right" THEN <<"R'", "D'", "R", "D">>
        ELSE IF white_pos = "front"
        THEN <<"F", "D", "F'", "D'", "D'", "R'", "D'", "R">>
        ELSE <<"R'", "D2", "R", "D", "R'", "D'", "R">>

\* top_edge_locations + middle_edge_locations of _find_middle_edge_for_position
middle_search_locations == <<
    <<<<UP, 0, 1>>, <<BACK, 0, 1>>>>,
    <<<<UP, 1, 2>>, <<RIGHT, 0, 1>>>>,
    <<<<UP, 2, 1>>, <<FRONT, 0, 1>>>>,
    <<<<UP, 1, 0>>, <<LEFT, 0, 1>>>>,
    <<<<FRONT, 1, 0>>, <<LEFT, 1, 2>>>>,
    <<<<FRONT, 1, 2>>, <<RIGHT, 1, 0>>>>,
    <<<<BACK, 1, 0>>, <<RIGHT, 1, 2>>>>,
    <<<<BACK, 1, 2>>, <<LEFT, 1, 0>>>> >>

\* edge_positions / expected_colors of _is_middle_edge_solved
middle_edge_positions == <<
    <<<<FRONT, 1, 0>>, <<LEFT, 1, 2>>>>,
    <<<<FRONT, 1, 2>>, <<RIGHT, 1, 0>>>>,
    <<<<BACK, 1, 0>>, <<RIGHT, 1, 2>>>>,
    <<<<BACK, 1, 2>>, <<LEFT, 1, 0>>>> >>

middle_edge_colors == <<
    <<GREEN, ORANGE>>, <<GREEN, RED>>, <<BLUE, RED>>, <<BLUE, ORANGE>> >>

_is_middle_edge_solved(g, edge_index) ==
    /\ At(g, middle_edge_positions[edge_index + 1][1]) = middle_edge_colors[edge_index + 1][1]
    /\ At(g, middle_edge_positions[edge_index + 1][2]) = middle_edge_colors[edge_index + 1][2]

\* The index (1..8) in middle_search_locations, 0 for None
_find_middle_edge_for_position(g, target_position) ==
    LET target_set == {middle_edge_colors[target_position + 1][1],
                       middle_edge_colors[target_position + 1][2]}
    IN  FirstIndex({k \in 1..8 :
            LET colors == ColoursAt(g, middle_search_locations[k])
            IN  WHITE \notin colors /\ YELLOW \notin colors /\ colors = target_set})

\* The tokens of _extract_middle_edge_to_top
_extract_middle_edge_to_top(pos1) ==
    IF pos1 = <<FRONT, 1, 2>> THEN <<"R", "U", "R'", "U'", "F'", "U", "F">>
    ELSE IF pos1 = <<FRONT, 1, 0>> THEN <<"L'", "U'", "L", "U", "F", "U'", "F'">>
    ELSE IF pos1 = <<BACK, 1, 0>> THEN <<"R'", "U'", "R", "U", "B", "U'", "B'">>
    ELSE IF pos1 = <<BACK, 1, 2>> THEN <<"L", "U", "L'", "U'", "B'", "U", "B">>
    ELSE << >>

\* The top slot (0..3) that _insert_middle_edge_FL / _FR / _BR / _BL turn
\* the edge to, by target position 0..3
middle_insert_slot(target_position) == <<3, 1, 0, 2>>[target_position + 1]

\* The algorithm _insert_middle_edge_FL / _FR / _BR / _BL choose once the
\* edge has been turned above the slot
middle_insert_tokens(g, target_position) ==
    IF target_position = 0
    THEN IF g[FRONT][0][1] = GREEN
         THEN <<"U'", "L'", "U", "L", "U", "F", "U'", "F'">>
         ELSE <<"U", "F", "U'", "F'", "U'", "L'", "U", "L">>
    ELSE IF target_position = 1
    THEN IF g[FRONT][0][1] = GREEN
         THEN <<"U", "R", "U'", "R'", "U'", "F'", "U", "F">>
         ELSE <<"U'", "F'", "U", "F", "U", "R", "U'", "R'">>
    ELSE IF target_position = 2
    THEN IF g[BACK][0][1] = BLUE
         THEN <<"U", "R'", "U'", "R", "U", "B", "U'", "B'">>
         ELSE <<"U'", "B", "U'", "B'", "U'", "R'", "U", "R">>
    ELSE IF g[BACK][0][1] = BLUE
         THEN <<"U'", "L", "U", "L'", "U", "B'", "U'", "B">>
         ELSE <<"U", "B'", "U", "B", "U", "L", "U'", "L'">>

_is_yellow_cross_complete(g) ==
    /\ g[UP][1][1] = YELLOW
    /\ g[UP][0][1] = YELLOW
    /\ g[UP][1][0] = YELLOW
    /\ g[UP][1][2] = YELLOW
    /\ g[UP][2][1] = YELLOW

_analyze_yellow_cross_case(g) ==
    LET edges == <<g[UP][0][1] = YELLOW, g[UP][1][2] = YELLOW,
                   g[UP][2][1] = YELLOW, g[UP][1][0] = YELLOW>>
        yellow_count == Cardinality({k \in 1..4 : edges[k]})
    IN  IF yellow_count = 0 THEN "dot"
        ELSE IF yellow_count = 2
        THEN IF (edges[1] /\ edges[3]) \/ (edges[2] /\ edges[4])
             THEN "line" ELSE "L"
        ELSE IF yellow_count = 4 THEN "cross"
        ELSE "partial"

_is_yellow_line_horizontal(g) ==
    g[UP][1][0] = YELLOW /\ g[UP][1][2] = YELLOW

\* The tokens of _orient_yellow_L_shape
_orient_yellow_L_shape(g) ==
    IF g[UP][0][1] = YELLOW /\ g[UP][1][0] = YELLOW THEN << >>
    ELSE IF g[UP][0][1] = YELLOW /\ g[UP][1][2] = YELLOW THEN <<"U">>
    ELSE IF g[UP][1][2] = YELLOW /\ g[UP][2][1] = YELLOW THEN <<"U2">>
    ELSE IF g[UP][2][1] = YELLOW /\ g[UP][1][0] = YELLOW THEN <<"U'">>
    ELSE << >>

Sune == <<"R", "U", "R'", "U", "R", "U2", "R'">>

FRURUF == <<"F", "R", "U", "R'", "U'", "F'">>

\* The tokens of one iteration of the loop of _solve_yellow_cross
yellow_cross_tokens(g) ==
    LET cross_case == _analyze_yellow_cross_case(g)
    IN  IF cross_case = "dot" THEN FRURUF
        ELSE IF cross_case = "line"
        THEN (IF _is_yellow_line_horizontal(g) THEN <<"U">> ELSE << >>) \o FRURUF
        ELSE IF cross_case = "L" THEN _orient_yellow_L_shape(g) \o FRURUF
        ELSE << >>

\* corners of _are_all_yellow_corners_oriented, _count_oriented_yellow_corners,
\* _position_oriented_corner_BR and _position_two_oriented_corners
top_corner_cells == << <<0, 0>>, <<0, 2>>, <<2, 0>>, <<2, 2>> >>

_are_all_yellow_corners_oriented(g) ==
    \A k \in 1..4 : g[UP][top_corner_cells[k][1]][top_corner_cells[k][2]] = YELLOW

_count_oriented_yellow_corners(g) ==
    Cardinality({k \in 1..4 :
        g[UP][top_corner_cells[k][1]][top_corner_cells[k][2]] = YELLOW})

\* The tokens of _position_oriented_corner_BR
_position_oriented_corner_BR(g) ==
    LET first == FirstIndex({k \in 1..4 :
                    g[UP][top_corner_cells[k][1]][top_corner_cells[k][2]] = YELLOW})
    IN  IF first = 0 THEN << >> ELSE Us((1 - (first - 1)) % 4)

\* The tokens of _position_two_oriented_corners
_position_two_oriented_corners(g) ==
    LET oriented == {k \in 0..3 :
            g[UP][top_corner_cells[k + 1][1]][top_corner_cells[k + 1][2]] = YELLOW}
    IN  IF Cardinality(oriented) # 2 THEN << >>
        ELSE LET pos1 == CHOOSE k \in oriented : \A j \in oriented : k <= j
                 pos2 == CHOOSE k \in oriented : \A j \in oriented : j <= k
             IN  IF pos2 - pos1 = 2 THEN Us((1 - pos1) % 4)
                 ELSE IF pos1 = 0 /\ pos2 = 1 THEN << >>
                 ELSE IF pos1 = 1 /\ pos2 = 3 THEN <<"U'">>
                 ELSE IF pos1 = 2 /\ pos2 = 3 THEN <<"U2">>
                 ELSE IF pos1 = 0 /\ pos2 = 2 THEN <<"U">>
                 ELSE << >>

\* The tokens of one iteration of the loop of _orient_yellow_corners
yellow_corner_tokens(g) ==
    LET oriented_count == _count_oriented_yellow_corners(g)
    IN  IF oriented_count = 0 THEN Sune
        ELSE IF oriented_count = 1 THEN _position_oriented_corner_BR(g) \o Sune
        ELSE IF oriented_count = 2 THEN _position_two_oriented_corners(g) \o Sune
        ELSE << >>

\* corner_positions / expected_color_sets of _are_corners_permuted
last_corner_positions == <<
    <<<<UP, 0, 0>>, <<BACK, 0, 2>>, <<LEFT, 0, 0>>>>,
    <<<<UP, 0, 2>>, <<BACK, 0, 0>>, <<RIGHT, 0, 2>>>>,
    <<<<UP, 2, 0>>, <<FRONT, 0, 0>>, <<LEFT, 0, 2>>>>,
    <<<<UP, 2, 2>>, <<FRONT, 0, 2>>, <<RIGHT, 0, 0>>>> >>

last_corner_colors == <<
    {YELLOW, BLUE, ORANGE}, {YELLOW, BLUE, RED},
    {YELLOW, GREEN, ORANGE}, {YELLOW, GREEN, RED} >>

_are_corners_permuted(g) ==
    \A k \in 1..4 : ColoursAt(g, last_corner_positions[k]) = last_corner_colors[k]

\* edge_positions / expected_color_sets of _are_edges_permuted
last_edge_positions == <<
    <<<<UP, 0, 1>>, <<BACK, 0, 1>>>>,
    <<<<UP, 1, 2>>, <<RIGHT, 0, 1>>>>,
    <<<<UP, 2, 1>>, <<FRONT, 0, 1>>>>,
    <<<<UP, 1, 0>>, <<LEFT, 0, 1>>>> >>

last_edge_colors == <<
    {YELLOW, BLUE}, {YELLOW, RED}, {YELLOW, GREEN}, {YELLOW, ORANGE} >>

_are_edges_permuted(g) ==
    \A k \in 1..4 : ColoursAt(g, last_edge_positions[k]) = last_edge_colors[k]

_analyze_corner_permutation(g) ==
    IF _are_corners_permuted(g) THEN "solved" ELSE "clockwise"

_analyze_edge_permutation(g) ==
    IF _are_edges_permuted(g) THEN "solved" ELSE "adjacent"

\* The keys of move_methods in _execute_move
SolverTokens == FaceTokens

\* The tokens of one iteration of the loop of _permute_corners (none when
\* the case is "solved", where the loop breaks)
permute_corner_tokens(g) ==
    LET corner_case == _analyze_corner_permutation(g)
    IN  IF corner_case = "solved" THEN << >>
        ELSE IF corner_case = "clockwise"
        THEN <<"R'", "F", "R", "F'", "R'", "F", "R", "F'">>
        ELSE IF corner_case = "counterclockwise"
        THEN <<"F", "R'", "F'", "R", "F", "R'", "F'", "R">>
        ELSE <<"R'", "F", "R", "F'", "R'", "F", "R", "F'", "U">>

\* The tokens of one iteration of the loop of _permute_edges (none when the
\* case is "solved", where the loop breaks)
permute_edge_tokens(g) ==
    LET edge_case == _analyze_edge_permutation(g)
        tperm == <<"R", "U", "R'", "F'", "R", "U", "R'", "U'", "R'", "F", "R2", "U'", "R'">>
    IN  IF edge_case = "solved" THEN << >>
        ELSE IF edge_case = "adjacent" THEN tperm
        ELSE IF edge_case = "opposite"
        THEN <<"M2", "U", "M2", "U2", "M2", "U", "M2">>
        ELSE tperm \o <<"U">>

----------------------------------------------------------------------------
(* The cube under test and the calls made on it *)

Self == [size |-> size, cube |-> cube, move_history |-> move_history,
         tracker |-> tracker]

SetSelf(new) ==
    \E obj \in {new} :
        /\ size' = obj.size
        /\ cube' = obj.cube
        /\ move_history' = obj.move_history
        /\ tracker' = obj.tracker

MaxRepeat == 6       \* repetitions of an algorithm in one move sequence

RECURSIVE Repeat(_, _)
Repeat(seq, k) == IF k = 0 THEN << >> ELSE seq \o Repeat(seq, k - 1)

\* The move sequences handed to execute_moves
Algorithms == {Repeat(Sune, k) : k \in 1..MaxRepeat}

\* validate_cube_state not called yet
NoResult == [valid |-> TRUE, message |-> ""]

\* No list allocated yet
EmptyHeap == [grids |-> << >>, histories |-> << >>, edges |-> << >>, corners |-> << >>]

InitCube ==
    \E n \in 2..MaxSize : /\ size = n
                          /\ cube = create_solved_cube(n)
                          /\ move_history = << >>
                          /\ tracker = IF n = 3 THEN NewTracker ELSE NoTracker

Init ==
    /\ InitCube
    /\ pc = "idle"
    /\ solution_moves = << >>
    /\ pending = << >>
    /\ slot = 0
    /\ attempt = 0
    /\ depth = 0
    /\ entry = cube
    /\ before = Self
    /\ objects = << >>
    /\ heap = EmptyHeap
    /\ result = NoResult

\* cube.move_X() / cube.move_X_prime() / cube.move_X2() / cube.move_M() ...
Move(tok) ==
    /\ pc = "idle"
    /\ Len(move_history) < MaxMoves
    /\ SetSelf(move_map(Self, tok))
    /\ UNCHANGED <<solverVars, heapVars>>

\* cube.execute_moves(" ".join(seq))
ExecuteMoves(seq) ==
    /\ pc = "idle"
    /\ Len(move_history) < MaxMoves
    /\ SetSelf(execute_moves(Self, seq))
    /\ UNCHANGED <<solverVars, heapVars>>

\* cube.reset()
Reset ==
    /\ pc = "idle"
    /\ move_history # << >>
    /\ SetSelf(reset(Self))
    /\ UNCHANGED <<solverVars, heapVars>>

Next ==
    \/ \E tok \in KnownTokens : Move(tok)
    \/ \E seq \in Algorithms : ExecuteMoves(seq)
    \/ Reset

vars == <<size, cube, move_history, tracker,
          pc, solution_moves, pending, slot, attempt, depth, entry, before,
          objects, heap, result>>

Spec == Init /\ [][Next]_vars

----------------------------------------------------------------------------
(* RubiksCubeSolver: construction and solve() *)

\* basic_moves of scramble() on a cube of size n
basic_moves(n) ==
    BaseTokens \cup PrimeTokens \cup (IF n >= 3 THEN SliceTokens ELSE {})

\* cube.scramble(num_moves) on a new cube: execute_moves of the num_moves
\* tokens random.choice draws
scramble ==
    /\ pc = "idle"
    /\ move_history = << >>
    /\ \E num_moves \in 1..MaxScramble :
         \E scramble_sequence \in [1..num_moves -> basic_moves(size)] :
            SetSelf(execute_moves(Self, scramble_sequence))
    /\ UNCHANGED <<solverVars, heapVars>>

\* A constructor that takes a cube of any size.
NewSolver_mut ==
    /\ pc = "idle"
    /\ pc' = "ready"
    /\ solution_moves' = << >>
    /\ UNCHANGED <<cubeVars, pending, slot, attempt, depth, entry, before, heapVars>>

\* solver = RubiksCubeSolver(cube): __init__ raises ValueError unless the
\* cube is 3x3 (a 3x3 cube always has its tracker).
NewSolver ==
    /\ pc = "idle"
    /\ pc' = IF size # 3 THEN "ValueError" ELSE "ready"
    /\ solution_moves' = << >>
    /\ UNCHANGED <<cubeVars, pending, slot, attempt, depth, entry, before, heapVars>>

\* The caller clones the cube and calls solver.solve(): the already-solved
\* check, else phase 1 starts.
Solve ==
    /\ pc = "ready"
    /\ before' = Self
    /\ solution_moves' = << >>
    /\ pc' = IF is_solved(cube, size) THEN "done" ELSE "cross"
    /\ slot' = 0
    /\ UNCHANGED <<cubeVars, pending, attempt, depth, entry, heapVars>>

\* _execute_move for the next token of the algorithm in hand: a token of
\* move_methods is applied to the cube and recorded, another one is
\* reported only.
ExecuteMove ==
    /\ pending # << >>
    /\ IF Head(pending) \in SolverTokens
       THEN /\ SetSelf(move_map(Self, Head(pending)))
            /\ solution_moves' = Append(solution_moves, Head(pending))
       ELSE UNCHANGED <<cubeVars, solution_moves>>
    /\ pending' = Tail(pending)
    /\ UNCHANGED <<pc, slot, attempt, depth, entry, before, heapVars>>

\* A slot loop that makes solve() return when the white cross does not stand
\* after the fourth slot.
SlotLoop_mut(here, solved, found, call, next) ==
    /\ pc = here
    /\ pending = << >>
    /\ IF slot = 4
       THEN /\ pc' = IF here = "cross" /\ ~_is_white_edge_solved(cube, 0)
                     THEN "done" ELSE next
            /\ slot' = 0
            /\ UNCHANGED <<depth, entry>>
       ELSE IF solved \/ ~found
       THEN /\ slot' = slot + 1
            /\ UNCHANGED <<pc, depth, entry>>
       ELSE /\ pc' = call
            /\ depth' = 1
            /\ entry' = cube
            /\ UNCHANGED slot
    /\ UNCHANGED <<cubeVars, solution_moves, pending, attempt, before, heapVars>>

\* The head of the loop of a phase over its four slots: a slot that is
\* solved, or whose piece is not found, is passed over; after the fourth
\* slot the next phase starts.
SlotLoop(here, solved, found, call, next) ==
    /\ pc = here
    /\ pending = << >>
    /\ IF slot = 4
       THEN /\ pc' = next
            /\ slot' = 0
            /\ UNCHANGED <<depth, entry>>
       ELSE IF solved \/ ~found
       THEN /\ slot' = slot + 1
            /\ UNCHANGED <<pc, depth, entry>>
       ELSE /\ pc' = call
            /\ depth' = 1
            /\ entry' = cube
            /\ UNCHANGED slot
    /\ UNCHANGED <<cubeVars, solution_moves, pending, attempt, before, heapVars>>

\* _solve_white_cross
SolveWhiteCross ==
    SlotLoop("cross",
             slot < 4 /\ _is_white_edge_solved(cube, slot),
             slot < 4 /\ _find_white_edge_for_position(cube, slot) # 0,
             "white_edge", "corners")

\* _move_white_edge_to_position(location, slot), where location is what
\* _find_white_edge_for_position returns for the grid as it is: up to
\* the return (edge in the top layer) or the call of itself.
MoveWhiteEdge ==
    /\ pc = "white_edge"
    /\ pending = << >>
    /\ LET pos1 == edge_locations[_find_white_edge_for_position(cube, slot)][1]
       IN  /\ pending' = white_edge_tokens(pos1, slot)
           /\ pc' = IF pos1[1] = UP THEN "cross_next" ELSE "white_edge_again"
    /\ UNCHANGED <<cubeVars, solution_moves, slot, attempt, depth, entry, before, heapVars>>

\* The call of itself at the end of _move_white_edge/corner_to_position.
\* A call that finds the grid of the outermost call again repeats what
\* was done since then for ever, and a call nested RecursionLimit deep is
\* refused: either way the interpreter raises RecursionError.
CallAgain(here, found, call, loop) ==
    /\ pc = here
    /\ pending = << >>
    /\ IF ~found
       THEN /\ pc' = loop
            /\ slot' = slot + 1
            /\ UNCHANGED depth
       ELSE IF cube = entry \/ depth >= RecursionLimit
       THEN /\ pc' = "RecursionError"
            /\ UNCHANGED <<slot, depth>>
       ELSE /\ pc' = call
            /\ depth' = depth + 1
            /\ UNCHANGED slot
    /\ UNCHANGED <<cubeVars, solution_moves, pending, attempt, entry, before, heapVars>>

WhiteEdgeAgain ==
    CallAgain("white_edge_again",
              _find_white_edge_for_position(cube, slot) # 0, "white_edge", "cross")

\* _solve_white_corners
SolveWhiteCorners ==
    SlotLoop("corners",
             slot < 4 /\ _is_white_corner_solved(cube, slot),
             slot < 4 /\ _find_white_corner_for_position(cube, slot) # 0,
             "white_corner", "middle")

\* _move_white_corner_to_position(location, slot): the U turns of the top
\* branch, or the extraction of the bottom branch.
MoveWhiteCorner ==
    /\ pc = "white_corner"
    /\ pending = << >>
    /\ LET pos1 == corner_locations[_find_white_corner_for_position(cube, slot)][1]
       IN  IF pos1[1] = UP
           THEN /\ pending' = Us((slot - _get_top_corner_position(pos1)) % 4)
                /\ pc' = "corner_insert"
           ELSE /\ pending' = corner_sequence(_get_bottom_corner_position(pos1))
                /\ pc' = "white_corner_again"
    /\ UNCHANGED <<cubeVars, solution_moves, slot, attempt, depth, entry, before, heapVars>>

\* _insert_corner_algorithm_FR / _FL / _BL / _BR once the corner is above
\* its slot
InsertCorner ==
    /\ pc = "corner_insert"
    /\ pending = << >>
    /\ pending' = IF slot = 0 THEN _insert_corner_algorithm_FR(cube)
                  ELSE corner_sequence(slot)
    /\ pc' = "corners_next"
    /\ UNCHANGED <<cubeVars, solution_moves, slot, attempt, depth, entry, before, heapVars>>

WhiteCornerAgain ==
    CallAgain("white_corner_again",
              _find_white_corner_for_position(cube, slot) # 0, "white_corner", "corners")

\* _solve_middle_layer
SolveMiddleLayer ==
    SlotLoop("middle",
             slot < 4 /\ _is_middle_edge_solved(cube, slot),
             slot < 4 /\ _find_middle_edge_for_position(cube, slot) # 0,
             "middle_edge", "yellow_cross")

\* _move_middle_edge_to_position(location, slot): an edge in the middle
\* layer is extracted first.
MoveMiddleEdge ==
    /\ pc = "middle_edge"
    /\ pending = << >>
    /\ LET pos1 == middle_search_locations[_find_middle_edge_for_position(cube, slot)][1]
       IN  pending' = IF pos1[1] \in {FRONT, BACK, LEFT, RIGHT} /\ pos1[2] = 1
                      THEN _extract_middle_edge_to_top(pos1)
                      ELSE << >>
    /\ pc' = "middle_found"
    /\ UNCHANGED <<cubeVars, solution_moves, slot, attempt, depth, entry, before, heapVars>>

\* "Now edge should be in top layer": the location found after the
\* extraction (the location passed in, when there was none); an edge in
\* the top layer is turned above its slot, another one is left alone.
TurnMiddleEdge ==
    /\ pc = "middle_found"
    /\ pending = << >>
    /\ LET loc == _find_middle_edge_for_position(cube, slot)
       IN  IF loc # 0 /\ middle_search_locations[loc][1][1] = UP
           THEN /\ pending' = Us((middle_insert_slot(slot)
                        - _get_top_edge_position(middle_search_locations[loc][1])) % 4)
                /\ pc' = "middle_insert"
           ELSE /\ pending' = << >>
                /\ pc' = "middle_next"
    /\ UNCHANGED <<cubeVars, solution_moves, slot, attempt, depth, entry, before, heapVars>>

\* The algorithm of _insert_middle_edge_FL / _FR / _BR / _BL
InsertMiddleEdge ==
    /\ pc = "middle_insert"
    /\ pending = << >>
    /\ pending' = middle_insert_tokens(cube, slot)
    /\ pc' = "middle_next"
    /\ UNCHANGED <<cubeVars, solution_moves, slot, attempt, depth, entry, before, heapVars>>

\* The return of _move_..._to_position to the loop of its phase, which
\* goes on with the next slot.
NextSlot ==
    /\ pc \in {"cross_next", "corners_next", "middle_next"}
    /\ pending = << >>
    /\ pc' = CASE pc = "cross_next" -> "cross"
               [] pc = "corners_next" -> "corners"
               [] pc = "middle_next" -> "middle"
    /\ slot' = slot + 1
    /\ UNCHANGED <<cubeVars, solution_moves, pending, attempt, depth, entry, before, heapVars>>

\* A retry loop that does not look at its completion predicate.
RetryLoop_mut(here, complete, max_attempts, breaks, tokens, body, next) ==
    /\ pc = here
    /\ pending = << >>
    /\ IF attempt < max_attempts /\ ~breaks
       THEN /\ pending' = tokens
            /\ pc' = body
            /\ UNCHANGED attempt
       ELSE /\ pending' = << >>
            /\ pc' = next
            /\ attempt' = 0
    /\ UNCHANGED <<cubeVars, solution_moves, slot, depth, entry, before, heapVars>>

\* The head of a retry loop, "while not complete and attempt < max_attempts":
\* one more iteration with the tokens chosen for the grid as it is, or the
\* next phase (also when the iteration would break out of the loop).
RetryLoop(here, complete, max_attempts, breaks, tokens, body, next) ==
    /\ pc = here
    /\ pending = << >>
    /\ IF ~complete /\ attempt < max_attempts /\ ~breaks
       THEN /\ pending' = tokens
            /\ pc' = body
            /\ UNCHANGED attempt
       ELSE /\ pending' = << >>
            /\ pc' = next
            /\ attempt' = 0
    /\ UNCHANGED <<cubeVars, solution_moves, slot, depth, entry, before, heapVars>>

\* _solve_yellow_cross
SolveYellowCross ==
    RetryLoop("yellow_cross", _is_yellow_cross_complete(cube), 8, FALSE,
              yellow_cross_tokens(cube), "yellow_cross_end", "yellow_corners")

\* _orient_yellow_corners
OrientYellowCorners ==
    RetryLoop("yellow_corners", _are_all_yellow_corners_oriented(cube), 8, FALSE,
              yellow_corner_tokens(cube), "yellow_corners_end", "permute_corners")

\* _permute_last_layer, first half: _permute_corners
PermuteCorners ==
    RetryLoop("permute_corners", _are_corners_permuted(cube), 6,
              _analyze_corner_permutation(cube) = "solved",
              permute_corner_tokens(cube), "permute_corners_end", "permute_edges")

\* _permute_last_layer, second half: _permute_edges, after which solve()
\* returns solution_moves
PermuteEdges ==
    RetryLoop("permute_edges", _are_edges_permuted(cube), 4,
              _analyze_edge_permutation(cube) = "solved",
              permute_edge_tokens(cube), "permute_edges_end", "done")

\* "attempt += 1" at the end of an iteration of a retry loop
EndAttempt ==
    /\ pc \in {"yellow_cross_end", "yellow_corners_end",
               "permute_corners_end", "permute_edges_end"}
    /\ pending = << >>
    /\ pc' = CASE pc = "yellow_cross_end" -> "yellow_cross"
               [] pc = "yellow_corners_end" -> "yellow_corners"
               [] pc = "permute_corners_end" -> "permute_corners"
               [] pc = "permute_edges_end" -> "permute_edges"
    /\ attempt' = attempt + 1
    /\ UNCHANGED <<cubeVars, solution_moves, pending, slot, depth, entry, before, heapVars>>

\* Move sequences handed to execute_moves before the solver is built: the
\* first leaves a grid on which every test of the solver passes, the second
\* one that the edge permutation loop completes.
Setups == {<<"L", "R'", "M">>, <<"U2", "R", "L'">>}

NextSolve ==
    \/ scramble
    \/ \E seq \in Setups : ExecuteMoves(seq)
    \/ NewSolver
    \/ Solve
    \/ ExecuteMove
    \/ SolveWhiteCross
    \/ MoveWhiteEdge
    \/ WhiteEdgeAgain
    \/ SolveWhiteCorners
    \/ MoveWhiteCorner
    \/ InsertCorner
    \/ WhiteCornerAgain
    \/ SolveMiddleLayer
    \/ MoveMiddleEdge
    \/ TurnMiddleEdge
    \/ InsertMiddleEdge
    \/ NextSlot
    \/ SolveYellowCross
    \/ OrientYellowCorners
    \/ PermuteCorners
    \/ PermuteEdges
    \/ EndAttempt

SpecSolve == Init /\ [][NextSolve]_vars

----------------------------------------------------------------------------
(* clone(): objects and the lists their attributes refer to *)

MaxCloneMoves == 2   \* moves made on one cube of a program that clones

\* The tokens of the moves made on the original and on the clone
CloneTokens == {"U", "R'", "F2", "B", "M"}

\* The attribute values of the RubiksCube object obj: what obj.cube,
\* obj.move_history and obj.tracker.edges / .corners refer to in heap h
Deref(obj, h) ==
    [size |-> obj.size,
     cube |-> h.grids[obj.cube],
     move_history |-> h.histories[obj.move_history],
     tracker |-> IF obj.tracker.present
                 THEN [present |-> TRUE,
                       edges |-> h.edges[obj.tracker.edges],
                       corners |-> h.corners[obj.tracker.corners]]
                 ELSE NoTracker]

\* RubiksCube(size): the new object and the heap with its lists
RubiksCube(n, h) ==
    [object |-> [size |-> n,
                 cube |-> Len(h.grids) + 1,
                 move_history |-> Len(h.histories) + 1,
                 tracker |-> IF n = 3
                             THEN [present |-> TRUE,
                                   edges |-> Len(h.edges) + 1,
                                   corners |-> Len(h.corners) + 1]
                             ELSE [present |-> FALSE, edges |-> 0, corners |-> 0]],
     heap |-> [grids |-> Append(h.grids, create_solved_cube(n)),
               histories |-> Append(h.histories, << >>),
               edges |-> IF n = 3 THEN Append(h.edges, solved_edges) ELSE h.edges,
               corners |-> IF n = 3 THEN Append(h.corners, solved_corners)
                           ELSE h.corners]]

\* clone() with "new_cube.move_history = self.move_history": no .copy()
clone_mut(obj, h) ==
    LET new == RubiksCube(obj.size, h)
    IN  [object |-> [new.object EXCEPT !.move_history = obj.move_history],
         heap |-> [new.heap EXCEPT
            !.grids[new.object.cube] = h.grids[obj.cube],
            !.edges = IF obj.tracker.present
                      THEN [@ EXCEPT ![new.object.tracker.edges] =
                                        h.edges[obj.tracker.edges]]
                      ELSE @,
            !.corners = IF obj.tracker.present
                        THEN [@ EXCEPT ![new.object.tracker.corners] =
                                          h.corners[obj.tracker.corners]]
                        ELSE @]]

\* clone(): a new RubiksCube of the same size whose grid is a deep copy,
\* whose history is a copy, and whose new tracker gets deep copies of
\* the edge and corner lists
clone(obj, h) ==
    LET new == RubiksCube(obj.size, h)
    IN  [object |-> new.object,
         heap |-> [new.heap EXCEPT
            !.grids[new.object.cube] = h.grids[obj.cube],
            !.histories[new.object.move_history] = h.histories[obj.move_history],
            !.edges = IF obj.tracker.present
                      THEN [@ EXCEPT ![new.object.tracker.edges] =
                                        h.edges[obj.tracker.edges]]
                      ELSE @,
            !.corners = IF obj.tracker.present
                        THEN [@ EXCEPT ![new.object.tracker.corners] =
                                          h.corners[obj.tracker.corners]]
                        ELSE @]]

\* objs[o].move_X() and the like. The grid and the tracker's lists are
\* changed in place. A base or slice move appends to the history list in
\* place; a prime or double move appends its base moves in place and then
\* binds move_history to a new list (the slice of the old one, plus the
\* token), which takes the old list's place unless another object still
\* refers to the old list.
MoveObject(objs, h, o, tok) ==
    LET obj == objs[o]
        new == move_map(Deref(obj, h), tok)
        rebinds == tok \in PrimeTokens \cup DoubleTokens
        shared == \E p \in DOMAIN objs : p # o /\ objs[p].move_history = obj.move_history
        based == IF tok \in PrimeTokens THEN <<BaseOf(tok), BaseOf(tok), BaseOf(tok)>>
                 ELSE <<BaseOf(tok), BaseOf(tok)>>
        h1 == [h EXCEPT
                !.grids[obj.cube] = new.cube,
                !.edges = IF obj.tracker.present
                          THEN [@ EXCEPT ![obj.tracker.edges] = new.tracker.edges]
                          ELSE @,
                !.corners = IF obj.tracker.present
                            THEN [@ EXCEPT ![obj.tracker.corners] = new.tracker.corners]
                            ELSE @]
    IN  IF rebinds /\ shared
        THEN [objects |-> [objs EXCEPT ![o].move_history = Len(h.histories) + 1],
              heap |-> [h1 EXCEPT !.histories =
                          Append([@ EXCEPT ![obj.move_history] = @ \o based],
                                 new.move_history)]]
        ELSE [objects |-> objs,
              heap |-> [h1 EXCEPT !.histories[obj.move_history] = new.move_history]]

\* cube = RubiksCube(size)
InitClone ==
    /\ InitCube
    /\ pc = "idle"
    /\ solution_moves = << >>
    /\ pending = << >>
    /\ slot = 0
    /\ attempt = 0
    /\ depth = 0
    /\ entry = cube
    /\ before = Self
    /\ objects = <<RubiksCube(size, EmptyHeap).object>>
    /\ heap = RubiksCube(size, EmptyHeap).heap
    /\ result = NoResult

\* copy = cube.clone()
Clone ==
    /\ Len(objects) = 1
    /\ objects' = Append(objects, clone(objects[1], heap).object)
    /\ heap' = clone(objects[1], heap).heap
    /\ UNCHANGED <<cubeVars, solverVars, result>>

\* A move on the original (o = 1) or on the clone (o = 2)
MoveOn(o, tok) ==
    /\ o \in DOMAIN objects
    /\ Len(heap.histories[objects[o].move_history]) < MaxCloneMoves
    /\ objects' = MoveObject(objects, heap, o, tok).objects
    /\ heap' = MoveObject(objects, heap, o, tok).heap
    /\ UNCHANGED <<cubeVars, solverVars, result>>

NextClone ==
    \/ Clone
    \/ \E o \in 1..2 : \E tok \in CloneTokens : MoveOn(o, tok)

SpecClone == InitClone /\ [][NextClone]_vars

----------------------------------------------------------------------------
(* validate_cube_state on trackers whose records the caller has written to *)

MaxEdits == 1        \* tracker records that differ from a new tracker's

\* cube.tracker.edges[i][key] = v or cube.tracker.corners[i][key] = v,
\* written by the caller (list is "edges" or "corners")
SetPiece(list, i, key, v) ==
    /\ pc = "idle"
    /\ size = 3
    /\ Cardinality({k \in 0..11 : tracker.edges[k] # solved_edges[k]})
         + Cardinality({k \in 0..7 : tracker.corners[k] # solved_corners[k]})
           < MaxEdits
    /\ tracker' = [tracker EXCEPT ![list][i][key] = v]
    /\ UNCHANGED <<size, cube, move_history, solverVars, heapVars>>

\* result = cube.validate_cube_state(): the method assigns to nothing
ValidateCubeState ==
    /\ pc = "idle"
    /\ size = 3
    /\ result' = validate_cube_state(Self)
    /\ UNCHANGED <<cubeVars, solverVars, objects, heap>>

NextValidate ==
    \/ \E list \in {"edges", "corners"} : \E i \in DOMAIN tracker[list] :
         \E key \in {"position", "orientation"} : \E v \in 0..2 :
            SetPiece(list, i, key, v)
    \/ ValidateCubeState

SpecValidate == Init /\ [][NextValidate]_vars

----------------------------------------------------------------------------
(* execute_moves on token lists with tokens move_map has no key for *)

MaxTokens == 2       \* tokens in one move_sequence

\* move_sequence.split(): the tokens tried, three keys of move_map and two
\* strings that are no key ("u" differs from "U" by case only)
SplitTokens == {"U", "B'", "M", "X", "u"}

\* cube.execute_moves(" ".join(moves)); the caller keeps a clone of the cube
\* as it was (before) and the tokens it handed in (pending).
CallExecuteMoves(moves) ==
    /\ pc = "idle"
    /\ Len(move_history) < MaxMoves
    /\ before' = Self
    /\ pending' = moves
    /\ SetSelf(execute_moves(Self, moves))
    /\ UNCHANGED <<pc, solution_moves, slot, attempt, depth, entry, heapVars>>

NextExecute ==
    \E n \in 1..MaxTokens : \E moves \in [1..n -> SplitTokens] :
        CallExecuteMoves(moves)

SpecExecute == Init /\ [][NextExecute]_vars

----------------------------------------------------------------------------
(* The claims *)

\* The history holds face tokens only (base, prime or double)
FaceTokensOnly == \A k \in 1..Len(move_history) : move_history[k] \in FaceTokens

\* C1: on a cube of any size N >= 2, in every state reached from solved by
\* face tokens, and for every face X of U, D, R, L, F, B: four X in a row,
\* and four X' in a row, leave the facelet grid exactly as it was.
C1_FourTurnsRestoreGrid ==
    FaceTokensOnly =>
        \A x \in BaseTokens :
            /\ execute_moves(Self, <<x, x, x, x>>).cube = cube
            /\ execute_moves(Self, <<PrimeOf(x), PrimeOf(x), PrimeOf(x), PrimeOf(x)>>).cube
                   = cube

\* C2: on a cube of any size N >= 2, in every state reached from solved by
\* face tokens, and for every face X: X and then X', and likewise X' and
\* then X, restore the facelet grid exactly.
C2_InverseRestoresGrid ==
    FaceTokensOnly =>
        \A x \in BaseTokens :
            /\ execute_moves(Self, <<x, PrimeOf(x)>>).cube = cube
            /\ execute_moves(Self, <<PrimeOf(x), x>>).cube = cube

\* C3: after any sequence of face tokens on a solved 3x3 cube the grid is
\* geometrically valid: the facelets of each of the 8 corner positions
\* carry the colour set of one real corner piece, those of each of the 12
\* edge positions the colour set of one real edge piece, and every piece's
\* colour set occurs at exactly one position.
C3_GridGeometricallyValid ==
    (size = 3 /\ FaceTokensOnly) =>
        LET solved == create_solved_cube(3)
            corner(g, k) == ColoursAt(g, corner_locations[k])
            edge(g, k) == ColoursAt(g, edge_locations[k])
        IN  /\ \A k \in 1..8 : \E j \in 1..8 : corner(cube, k) = corner(solved, j)
            /\ \A j \in 1..8 : \E k \in 1..8 :
                   /\ corner(cube, k) = corner(solved, j)
                   /\ \A m \in 1..8 : corner(cube, m) = corner(solved, j) => m = k
            /\ \A k \in 1..12 : \E j \in 1..12 : edge(cube, k) = edge(solved, j)
            /\ \A j \in 1..12 : \E k \in 1..12 :
                   /\ edge(cube, k) = edge(solved, j)
                   /\ \A m \in 1..12 : edge(cube, m) = edge(solved, j) => m = k

\* C4: on a 3x3 cube, after any sequence of legal move tokens, every
\* intermediate state of a solve() included, tracker validation passes:
\* the recorded edge positions are 12 distinct values, the recorded corner
\* positions 8 distinct values, the sum of the edge orientations is even
\* and the sum of the corner orientations is a multiple of 3.
C4_TrackerValidationPasses ==
    size = 3 =>
        /\ validate_cube_state(Self) = [valid |-> TRUE, message |-> "Cube state is valid"]
        /\ Cardinality({tracker.edges[k].position : k \in 0..11}) = 12
        /\ Cardinality({tracker.corners[k].position : k \in 0..7}) = 8
        /\ SumOrientation(tracker.edges, 12) % 2 = 0
        /\ SumOrientation(tracker.corners, 8) % 3 = 0

\* C4's case: a solve() is under way or over on a scrambled cube, and the
\* tracker holds flipped edges and twisted corners.
C4_Witness ==
    /\ size = 3
    /\ pc \notin {"idle", "ready"}
    /\ solution_moves # << >>
    /\ \E k \in 0..11 : tracker.edges[k].orientation = 1
    /\ \E k \in 0..7 : tracker.corners[k].orientation = 2

\* C5: grid and tracker never drift apart: on a 3x3 cube, after any
\* sequence of face tokens (base, prime or double) from the solved state,
\* the tracker's is_cube_solved() is true exactly when the grid's
\* is_solved() is true.
C5_TrackerAgreesWithGrid ==
    (size = 3 /\ FaceTokensOnly) =>
        (is_cube_solved(tracker) <=> is_solved(cube, size))

\* C6: for a 3x3 cube scrambled from solved by legal tokens, after solve()
\* returns the cube's is_solved() is true.
C6_SolveSolves ==
    (size = 3 /\ pc = "done") => is_solved(cube, size)

\* C7: solve() terminates on every 3x3 state reached from solved by legal
\* tokens: no phase recurses without bound, and solve() returns its move
\* list rather than raising.
C7_SolveReturns ==
    size = 3 => (pc # "RecursionError" /\ depth < RecursionLimit)

\* C8: the sequence solve() returns is exactly the sequence of tokens it
\* applied to the cube, in order: the history after the call is the
\* history before it followed by the returned tokens, and replaying the
\* returned tokens on a clone taken before the call yields the same grid.
C8_ReturnedMovesAreTheMovesMade ==
    pc = "done" =>
        /\ move_history = before.move_history \o solution_moves
        /\ execute_moves(before, solution_moves).cube = cube

\* C8's case: solve() has returned a sequence with plain, prime and double
\* turns in it.
C8_Witness ==
    /\ pc = "done"
    /\ \E k \in 1..Len(solution_moves) : solution_moves[k] \in BaseTokens
    /\ \E k \in 1..Len(solution_moves) : solution_moves[k] \in PrimeTokens
    /\ \E k \in 1..Len(solution_moves) : solution_moves[k] \in DoubleTokens

\* What C9 compares of a cube: get_state_string (the grid), the move
\* history and the tracker's pieces
Contents(objs, h, o) ==
    [state |-> get_state_string(Deref(objs[o], h).cube, objs[o].size),
     move_history |-> Deref(objs[o], h).move_history,
     tracker |-> Deref(objs[o], h).tracker]

\* C9: clone() returns a cube whose grid, move history and tracker contents
\* equal the original's, and afterwards any move applied to either cube
\* leaves the other cube's grid, move history and tracker pieces unchanged.
C9_CloneIsIndependentCopy ==
    [][/\ (Len(objects) = 1 /\ Len(objects') = 2) =>
             /\ Contents(objects', heap', 2) = Contents(objects, heap, 1)
             /\ Contents(objects', heap', 1) = Contents(objects, heap, 1)
       /\ (Len(objects) = 2 /\ Len(objects') = 2) =>
             \/ Contents(objects', heap', 1) = Contents(objects, heap, 1)
             \/ Contents(objects', heap', 2) = Contents(objects, heap, 2)]_vars

\* C9's case: a 3x3 cube was cloned after a move, and both the original
\* and the clone have been moved since, differently.
C9_Witness ==
    /\ Len(objects) = 2
    /\ objects[1].size = 3
    /\ Len(Contents(objects, heap, 1).move_history) = 2
    /\ Len(Contents(objects, heap, 2).move_history) = 2
    /\ Contents(objects, heap, 1).move_history[1] = Contents(objects, heap, 2).move_history[1]
    /\ Contents(objects, heap, 1).state # Contents(objects, heap, 2).state
    /\ Contents(objects, heap, 1).tracker # Contents(objects, heap, 2).tracker

\* C10: from a solved 3x3 cube, R U R' U R U2 R' six times in a row returns
\* the cube to solved: the grid's is_solved() is true and the tracker
\* reports all 12 edges and 8 corners solved.
C10_SuneSixTimesSolved ==
    (size = 3 /\ move_history = Repeat(Sune, 6)) =>
        /\ is_solved(cube, size)
        /\ Cardinality({k \in 0..11 : is_edge_solved(tracker, k)}) = 12
        /\ Cardinality({k \in 0..7 : is_corner_solved(tracker, k)}) = 8
        /\ is_cube_solved(tracker)

\* C11: every accepted token (a base, prime or double face token on any size,
\* a slice token on size 3 and above) appends exactly one entry to the move
\* history, the token itself, and leaves the earlier entries as they were: a
\* prime move leaves one entry and not three, a double move one and not two.
\* (Looked at in every state in which the model goes on making moves.)
C11_OneHistoryEntryPerToken ==
    Len(move_history) < MaxMoves =>
        \A tok \in KnownTokens :
            (tok \in FaceTokens \/ size >= 3) =>
                move_map(Self, tok).move_history = Append(move_history, tok)

\* A prime move and then a double move were made: two entries.
C11_Witness ==
    /\ Len(move_history) = 2
    /\ move_history[1] \in PrimeTokens
    /\ move_history[2] \in DoubleTokens

\* C12: on a 3x3 cube every accepted token, the slice tokens M, E and S
\* included, is applied to the tracker in the same call: no accepted token
\* changes the grid and leaves the tracker's pieces as they were.
C12_TrackerFollowsEveryToken ==
    size = 3 =>
        \A tok \in KnownTokens :
            move_map(Self, tok).cube # cube =>
                move_map(Self, tok).tracker # tracker

\* C13: execute_moves applies the recognised tokens in order and skips the
\* unrecognised ones without raising or aborting: the grid, the history and
\* the tracker it leaves are those of the same sequence with the
\* unrecognised tokens removed.
C13_UnknownTokensSkipped ==
    LET IsKnown(tok) == tok \in KnownTokens
    IN  Self = execute_moves(before, SelectSeq(pending, IsKnown))

\* The call had an unrecognised token with a recognised one after it, and
\* moves were made.
C13_Witness ==
    /\ \E i, j \in 1..Len(pending) :
          i < j /\ pending[i] \notin KnownTokens /\ pending[j] \in KnownTokens
    /\ cube # before.cube
    /\ Len(move_history) > Len(before.move_history)

\* C14: after reset(), from any reachable state and for any size N >= 2,
\* is_solved() is true and the move history is empty, and on a 3x3 cube the
\* tracker reports all 12 edges and all 8 corners solved.
C14_ResetGivesSolvedCube ==
    LET after == reset(Self)
    IN  /\ is_solved(after.cube, after.size)
        /\ after.move_history = << >>
        /\ size = 3 =>
              /\ after.tracker.present
              /\ \A k \in 0..11 : is_edge_solved(after.tracker, k)
              /\ \A k \in 0..7 : is_corner_solved(after.tracker, k)

\* A 3x3 cube with moves made, neither its grid nor its tracker solved, which
\* reset() changes in grid, history and tracker.
C14_Witness ==
    /\ size = 3
    /\ Len(move_history) = MaxMoves
    /\ ~is_solved(cube, size)
    /\ ~is_cube_solved(tracker)
    /\ reset(Self).cube # cube
    /\ reset(Self).tracker # tracker

\* C15: during solve() each phase of the six-phase pipeline after the first
\* starts only in a state where the completion predicate of the phase before
\* it holds: the white corners after the white cross, the middle layer after
\* the white corners, the yellow cross after the middle layer, the corner
\* orientation after the yellow cross, the last-layer permutation after the
\* corner orientation.
C15_PhaseStartsAfterPreviousComplete ==
    /\ (pc = "corners" /\ slot = 0) =>
          \A i \in 0..3 : _is_white_edge_solved(cube, i)
    /\ (pc = "middle" /\ slot = 0) =>
          \A i \in 0..3 : _is_white_corner_solved(cube, i)
    /\ (pc = "yellow_cross" /\ attempt = 0) =>
          \A i \in 0..3 : _is_middle_edge_solved(cube, i)
    /\ (pc = "yellow_corners" /\ attempt = 0) =>
          _is_yellow_cross_complete(cube)
    /\ (pc = "permute_corners" /\ attempt = 0) =>
          _are_all_yellow_corners_oriented(cube)

\* C16: when a phase ends with its completion predicate still false, solve()
\* still runs every later phase, in the fixed order white cross, first-layer
\* corners, middle edges, last-layer cross, corner orientation, corner
\* permutation, edge permutation, and then returns normally.  Step by step:
\* a step of solve() stays in its phase or goes on to the phase right after
\* it (the return, after the edge permutation), whatever the predicates say;
\* a phase starts on its first slot or attempt with no move pending; no
\* loop goes beyond its four slots or eight attempts; and RecursionError is
\* raised in the white cross only, before any phase has ended.
C16_LaterPhasesRunAndSolveReturns ==
    [][LET Stage(p) ==
               CASE p \in {"cross", "white_edge", "white_edge_again",
                           "cross_next"} -> 1
                 [] p \in {"corners", "white_corner", "corner_insert",
                           "white_corner_again", "corners_next"} -> 2
                 [] p \in {"middle", "middle_edge", "middle_found",
                           "middle_insert", "middle_next"} -> 3
                 [] p \in {"yellow_cross", "yellow_cross_end"} -> 4
                 [] p \in {"yellow_corners", "yellow_corners_end"} -> 5
                 [] p \in {"permute_corners", "permute_corners_end"} -> 6
                 [] p \in {"permute_edges", "permute_edges_end"} -> 7
                 [] p = "done" -> 8
                 [] OTHER -> 0
       IN  Stage(pc) \in 1..7 =>
             /\ slot <= 4 /\ attempt <= 8
             /\ IF pc' = "RecursionError"
                THEN Stage(pc) = 1
                ELSE Stage(pc') \in {Stage(pc), Stage(pc) + 1}
             /\ Stage(pc') = Stage(pc) + 1 =>
                   slot' = 0 /\ attempt' = 0 /\ pending' = << >>]_vars

\* solve() has returned moves after its last phase, the edge permutation,
\* ended with the edges not permuted and the cube not solved.
C16_Witness ==
    /\ pc = "done"
    /\ solution_moves # << >>
    /\ ~_are_edges_permuted(cube)
    /\ ~is_solved(cube, size)

\* C17: validate_cube_state() on a 3x3 cube never raises and never modifies
\* the tracker: for any tracker contents, those that break the
\* position-uniqueness or the orientation-sum checks included, it returns a
\* result, valid = false with the message naming the broken check or else
\* valid = true, and leaves the records as they were.
C17_ValidateReturnsAndLeavesTracker ==
    [][result' # result =>
        LET EdgesClash == \E i, j \in 0..11 :
                i # j /\ tracker.edges[i].position = tracker.edges[j].position
            CornersClash == \E i, j \in 0..7 :
                i # j /\ tracker.corners[i].position = tracker.corners[j].position
            EdgeSumOdd == SumOrientation(tracker.edges, 12) % 2 = 1
            CornerSumOff == SumOrientation(tracker.corners, 8) % 3 # 0
        IN  /\ tracker' = tracker
            /\ DOMAIN result' = {"valid", "message"}
            /\ result'.valid = ~(EdgesClash \/ CornersClash \/ EdgeSumOdd \/ CornerSumOff)
            /\ ~result'.valid =>
                  \/ EdgesClash
                       /\ result'.message = "Duplicate or missing edge positions detected!"
                  \/ CornersClash
                       /\ result'.message = "Duplicate or missing corner positions detected!"
                  \/ EdgeSumOdd
                       /\ result'.message = "Invalid edge orientation parity!"
                  \/ CornerSumOff
                       /\ result'.message = "Invalid corner orientation parity!"]_vars

\* validate_cube_state has reported a tracker whose records the caller had
\* written to as not valid, and the tracker is still that tracker.
C17_Witness ==
    /\ size = 3
    /\ ~result.valid
    /\ result.message = "Invalid corner orientation parity!"
    /\ tracker # NewTracker
    /\ SumOrientation(tracker.corners, 8) % 3 # 0

\* C18: constructing a solver over a cube whose size is not 3 fails at
\* construction, before any phase and without applying any move: the call
\* ends in ValueError, the grid and the move history are as they were, and
\* nothing of the solver runs afterwards.
C18_SolverRefusesOtherSizes ==
    [][size # 3 =>
        /\ pc = "idle" => pc' \in {"idle", "ValueError"}
        /\ pc' = "ValueError" =>
              /\ pc = "idle"
              /\ cube' = cube
              /\ move_history' = move_history
              /\ tracker' = tracker
              /\ solution_moves' = << >>
        /\ pc # "idle" => UNCHANGED vars]_vars

\* The constructor has refused a scrambled 4x4 cube.
C18_Witness ==
    /\ size = 4
    /\ pc = "ValueError"
    /\ Len(move_history) = MaxScramble
    /\ ~is_solved(cube, size)

\* C19: for every size N >= 2 and every face token (base, prime or double),
\* applying that single token to a solved cube yields is_solved() false.
C19_OneFaceTokenUnsolves ==
    /\ (Len(move_history) = 1 /\ move_history[1] \in FaceTokens) =>
          ~is_solved(cube, size)
    /\ is_solved(cube, size) =>
          \A tok \in FaceTokens : ~is_solved(move_map(Self, tok).cube, size)

\* One double face token was applied to the new cube of the largest size.
C19_Witness ==
    /\ size = MaxSize
    /\ Len(move_history) = 1
    /\ move_history[1] \in DoubleTokens
    /\ ~is_solved(cube, size)

\* C20: for every size N >= 2 a freshly constructed cube is solved: every
\* facelet on face i equals i, is_solved() is true and the move history is
\* empty.  (The cube under test with no move in its history is the cube
\* the constructor has made, or one equal to it.)
C20_NewCubeIsSolved ==
    move_history = << >> =>
        LET new == NewCube(size)
        IN  /\ new.move_history = << >>
            /\ is_solved(new.cube, size)
            /\ \A f \in 0..5 : \A r, c \in 0..(size - 1) : new.cube[f][r][c] = f
            /\ cube = new.cube

\* The cube of the largest size as its constructor leaves it.
C20_Witness ==
    /\ size = MaxSize
    /\ move_history = << >>
    /\ Self = NewCube(size)
    /\ is_solved(cube, size)

\* C21: in the tracker a single clockwise quarter turn of any face U, D, R,
\* L, F or B relocates exactly four edge pieces and exactly four corner
\* pieces, each kind in one 4-cycle: all four pieces change slot, and four
\* applications, not fewer, bring every piece back to its slot.
C21_QuarterTurnIsFourCycle ==
    size = 3 =>
        \A x \in BaseTokens :
            LET t1 == _apply_single_move(tracker, x)
                t2 == _apply_single_move(t1, x)
                t3 == _apply_single_move(t2, x)
                t4 == _apply_single_move(t3, x)
                SamePieces(a, b) ==
                    /\ \A k \in 0..11 : a.edges[k].id = b.edges[k].id
                    /\ \A k \in 0..7 : a.corners[k].id = b.corners[k].id
            IN  /\ Cardinality({k \in 0..11 : t1.edges[k].id # tracker.edges[k].id}) = 4
                /\ Cardinality({k \in 0..7 : t1.corners[k].id # tracker.corners[k].id}) = 4
                /\ SamePieces(t4, tracker)
                /\ ~SamePieces(t1, tracker)
                /\ ~SamePieces(t2, tracker)
                /\ ~SamePieces(t3, tracker)

\* C22: in the cross phase, when the wanted edge is found in the top layer,
\* the U turns made before the insertion leave that edge in the top slot
\* directly above the target slot, so that the half turn of the target face
\* (F2, R2, B2 or L2) which follows puts the wanted edge into the target
\* bottom slot.
C22_TopEdgeAlignedThenInserted ==
    LET wanted == {white_edge_colors[slot + 1][1], white_edge_colors[slot + 1][2]}
        above == edge_locations[<<3, 2, 1, 4>>[slot + 1]]
    IN  /\ (pc = "cross_next" /\ pending = <<HalfTurn(slot)>>) =>
              ColoursAt(cube, above) = wanted
        /\ (pc = "cross_next" /\ pending = << >>) =>
              ColoursAt(cube, white_edge_positions[slot + 1]) = wanted

\* C23: in the cross phase, when the wanted edge sits in any of the four
\* middle-layer slots (front-left, front-right, back-right, back-left), the
\* fixed extraction sequence for that slot is applied and the edge is then
\* no longer in the middle layer: the retry finds it in the top or in the
\* bottom layer.
C23_MiddleEdgeExtracted ==
    (pc = "white_edge" /\ pending = << >>
        /\ _find_white_edge_for_position(cube, slot) \in 9..12) =>
        LET location == edge_locations[_find_white_edge_for_position(cube, slot)]
            tokens == white_edge_tokens(location[1], slot)
        IN  /\ tokens # << >>
            /\ _find_white_edge_for_position(execute_moves(Self, tokens).cube, slot)
                  \in 1..8

\* C24: the retry loops of the last three phases are bounded and look at
\* their predicate again after every application: the last-layer cross runs
\* at most 8 iterations, the corner orientation at most 8, the corner
\* permutation at most 6 and the edge permutation at most 4, and each loop
\* stops at the first iteration boundary where its completion predicate is
\* true.
C24_RetryLoopsBoundedAndRechecked ==
    [][LET Ceiling(p) ==
               CASE p \in {"yellow_cross", "yellow_cross_end"} -> 8
                 [] p \in {"yellow_corners", "yellow_corners_end"} -> 8
                 [] p \in {"permute_corners", "permute_corners_end"} -> 6
                 [] p \in {"permute_edges", "permute_edges_end"} -> 4
                 [] OTHER -> 0
           AtHead(p) == p \in {"yellow_cross", "yellow_corners",
                             "permute_corners", "permute_edges"}
           Complete ==
               CASE pc = "yellow_cross" -> _is_yellow_cross_complete(cube)
                 [] pc = "yellow_corners" -> _are_all_yellow_corners_oriented(cube)
                 [] pc = "permute_corners" -> _are_corners_permuted(cube)
                 [] pc = "permute_edges" -> _are_edges_permuted(cube)
                 [] OTHER -> FALSE
       IN  /\ Ceiling(pc) > 0 =>
                 attempt <= Ceiling(pc) /\ (~AtHead(pc) => attempt < Ceiling(pc))
           /\ (AtHead(pc) /\ pending = << >> /\ (Complete \/ attempt = Ceiling(pc))) =>
                 /\ pc' \notin {pc, "yellow_cross_end", "yellow_corners_end",
                                "permute_corners_end", "permute_edges_end"}
                 /\ pending' = << >>
                 /\ cube' = cube
           /\ (AtHead(pc) /\ pc' # pc /\ ~AtHead(pc') /\ pc' # "done") =>
                 attempt' = attempt /\ ~Complete
           /\ (~AtHead(pc) /\ Ceiling(pc) > 0 /\ AtHead(pc')) =>
                 attempt' = attempt + 1]_vars

\* The earlier loops have used all their iterations (8 + 8 + 6 algorithms
\* make more than 150 moves) and the edge permutation loop meets its predicate
\* true at the boundary after its first iteration.
C24_Witness ==
    /\ pc = "permute_edges"
    /\ attempt = 1
    /\ pending = << >>
    /\ Len(solution_moves) > 150
    /\ _are_edges_permuted(cube)

\* C25: in the last-layer cross phase every state is classified as exactly
\* one of dot, line, L and cross, and in every iteration whose class is not
\* cross the algorithm F R U R' U' F' is applied once, after any normalising
\* U turn.
C25_CrossCaseClassifiedAndAlgorithmApplied ==
    (pc = "yellow_cross" /\ pending = << >> /\ attempt < 8) =>
        LET cross_case == _analyze_yellow_cross_case(cube)
            tokens == yellow_cross_tokens(cube)
        IN  /\ cross_case \in {"dot", "line", "L", "cross"}
            /\ cross_case = "cross" <=> _is_yellow_cross_complete(cube)
            /\ cross_case # "cross" =>
                  /\ Len(tokens) \in {6, 7}
                  /\ SubSeq(tokens, Len(tokens) - 5, Len(tokens)) = FRURUF
                  /\ Len(tokens) = 7 => tokens[1] \in {"U", "U'", "U2"}

\* C26: in the corner-orientation phase, when exactly one top corner shows
\* the reference colour on UP, the U turns made before the algorithm leave
\* that corner at the back-right top corner, UP[0][2].
C26_OrientedCornerMovedToBackRight ==
    (/\ pc = "yellow_corners"
     /\ pending = << >>
     /\ attempt < 8
     /\ _count_oriented_yellow_corners(cube) = 1) =>
        execute_moves(Self, _position_oriented_corner_BR(cube)).cube[UP][0][2] = YELLOW

\* C27: after any sequence of face tokens on a 3x3 cube the position value of
\* each tracked edge and corner (edge_positions and corner_positions of the
\* diagnostics) is the index of the slot the piece occupies.
C27_PositionIsOccupiedSlot ==
    (size = 3 /\ tracker.present /\ FaceTokensOnly) =>
        /\ \A k \in 0..11 : tracker.edges[k].position = k
        /\ \A k \in 0..7 : tracker.corners[k].position = k

\* C28: after any sequence of accepted tokens (face turns, primes, doubles
\* and slice moves) on a cube of size N the grid still has 6 faces of N x N
\* facelets and every colour 0..5 occurs exactly N*N times.
C28_ColourCountsKept ==
    /\ DOMAIN cube = Faces
    /\ \A f \in Faces :
          /\ DOMAIN cube[f] = Idx(size)
          /\ \A r \in Idx(size) : DOMAIN cube[f][r] = Idx(size)
    /\ \A colour \in 0..5 :
          Cardinality({cell \in Faces \X Idx(size) \X Idx(size) :
                          cube[cell[1]][cell[2]][cell[3]] = colour}) = size * size

\* A slice move and then a face turn have mixed the faces of a 3x3 cube.
C28_Witness ==
    /\ size = 3
    /\ Len(move_history) = 2
    /\ move_history[1] \in SliceTokens
    /\ move_history[2] \in FaceTokens
    /\ \E f \in Faces : Cardinality({cube[f][r][c] : r \in Idx(3), c \in Idx(3)}) >= 3

\* C29: on a solved 3x3 cube every completion predicate of the solver holds:
\* the four cross edges, the four first-layer corners, the four middle
\* edges, the last-layer cross, the last-layer corner orientation and the
\* last-layer corner and edge permutation checks.
C29_SolvedCubePassesEveryPredicate ==
    (size = 3 /\ cube = create_solved_cube(3)) =>
        /\ \A i \in 0..3 : _is_white_edge_solved(cube, i)
        /\ \A i \in 0..3 : _is_white_corner_solved(cube, i)
        /\ \A i \in 0..3 : _is_middle_edge_solved(cube, i)
        /\ _is_yellow_cross_complete(cube)
        /\ _are_all_yellow_corners_oriented(cube)
        /\ _are_corners_permuted(cube)
        /\ _are_edges_permuted(cube)

\* C30: on a cube of odd size, after any sequence of face tokens (no slice
\* moves) the centre facelet of every face i still has colour i, and the
\* solver never changes a centre facelet.
C30_CentresKept ==
    [][size % 2 = 1 =>
          LET middle == size \div 2
          IN  /\ FaceTokensOnly' =>
                    \A f \in Faces : cube'[f][middle][middle] = f
              /\ pc # "idle" =>
                    \A f \in Faces : cube'[f][middle][middle] = cube[f][middle][middle]]_vars

\* The solver has made moves on a 3x3 cube that was scrambled with face
\* tokens only.
C30_Witness ==
    /\ size = 3
    /\ FaceTokensOnly
    /\ Len(solution_moves) >= 3
    /\ Len(move_history) > Len(solution_moves)
    /\ ~is_solved(cube, size)

====
